---- MODULE Spec2Model ----
(***************************************************************************)
(* Blob extraction and temporal identity tracking of the coin counter.     *)
(*                                                                         *)
(* Two state machines share this module:                                   *)
(*   Spec      the tracking table (detectedCoins), the frame counter and   *)
(*             the denomination counters, driven by the detectors;         *)
(*   SpecBlob  the region labeler (blobLabel) followed by the feature      *)
(*             extractor (blobInfo) on one input raster.                   *)
(* The repository holds two builds of the tracker, lib/vc_coin.cpp         *)
(* (trackCoin, frameCounter, correctGoldCoins) and lib/vc_coin_utils.cpp   *)
(* with lib/vc_coin_detection.cpp (IsCoinAlreadyDetected,                  *)
(* IncrementFrameCounter, DetectEuroCoinsImproved); the variable lib says  *)
(* which build a behaviour runs.                                           *)
(***************************************************************************)
EXTENDS Integers, Sequences, FiniteSets, TLC

VARIABLES
    lib,             \* "vc_coin" or "vc_coin_utils": the build that runs
    frameCountValue, \* static int frameCountValue / frameCounter
    detectedCoins,   \* int detectedCoins[150][5]: <<x, y, type, frame, counted>>
    counters,        \* int coinCounts[8], indexed 0..7 as in the code
    last,            \* the last operation: its arguments, result and pre-state
    ncalls,          \* detections presented so far in this run
    nidle,           \* idle stretches so far in this run
    streak,          \* run of identical counting calls closer than the window
    img,             \* labeler: IVC *src as handed to blobLabel
    dst,             \* labeler: IVC *dst, the raster the labels are written to
    labeltable,      \* labeler: int *labeltable
    label,           \* labeler: int label, the next provisional label
    scan,            \* labeler: <<x, y>> of the pixel the scan is at
    blobs,           \* labeler: OVC *blobs of the caller, <<>> for NULL
    nlabels,         \* labeler: int nlabels of the caller
    pc,              \* labeler: "off", "call", "scan", "finish", "labelled", "done"
    excludeList,     \* int excludeList[MAX_COINS * 2], as pairs <<x, y>>
    frameNo,         \* frames the driver has begun
    addedIn,         \* for each slot of excludeList, the frame that filled it (0: none)
    live,            \* positions added to excludeList and not removed since
    lastBlob,        \* the last step of the frame driver or of the exclusion list
    shape            \* a region handed to the shape measures, and their results

trackVars == <<lib, frameCountValue, detectedCoins, counters, last, ncalls, nidle, streak>>
blobVars == <<img, dst, labeltable, label, scan, blobs, nlabels, pc>>
frameVars == <<excludeList, frameNo, addedIn, live, lastBlob>>
vars == <<lib, frameCountValue, detectedCoins, counters, last, ncalls, nidle, streak,
          img, dst, labeltable, label, scan, blobs, nlabels, pc,
          excludeList, frameNo, addedIn, live, lastBlob, shape>>

(***************************************************************************)
(* Bounds of the model.                                                    *)
(***************************************************************************)
\* capacity of the tracking table (150 in the source, reduced in the model)
MAX_TRACKED_COINS == 2
\* detections presented to the tracker in one run
MaxCalls == 3
\* idle stretches (runs of frames without a detection) in one run
MaxIdle == 2
\* width and height of the small rasters handed to the labeler
SmallWidth == 5
SmallHeight == 5
\* isolated foreground pixels of the largest comb raster handed to the labeler
MaxIsolated == 257
\* slots of the exclusion list (MAX_COINS is 50 in the source)
MAX_COINS == 2
\* frames the driver begins in one run
MaxFrames == 3

(***************************************************************************)
(* Program constants.                                                      *)
(***************************************************************************)
FrameWrap == 1000
SmallRadius == 50
EuroRadius == 75
SmallMemory == 60
EuroMemory == 120
ConflictRadius == 85
CorrectRadius == 80
\* values an unsigned char pixel holds
PixelRange == 256
\* foreground value of a binary raster
Foreground == 255
\* least size of the label table
MinLabels == 256
\* proximity threshold of the exclusion list, in pixels
ExcludeRadius == 30
\* radius of the class lookup, in pixels
LookupRadius == 50
INT_MAX == 2147483647
\* BASE_TOLERANCE = 0.08f, in units of 1/10000
BASE_TOLERANCE == 800
\* edgeMargin of the adaptive tolerance, in pixels
edgeMargin == 50
\* the frame size the detectors pass to CalculateAdaptiveTolerance
frameWidth == 640
frameHeight == 480
\* 4.0f * 3.14159f, in units of 1/1000
FourPi == 12566
\* 2^16 and 2^15, the halves of a 32-bit int
Half == 65536
HalfSign == 32768

\* centroids presented to the tracker; their distances are 60, 83 and 143
Points == {<<100, 100>>, <<160, 100>>, <<243, 100>>}
\* denominations presented: 1 = 1c (copper), 4 = 10c (gold), 7 = 1 EUR
CoinTypes == {1, 4, 7}
\* frame counter value at which a run starts: the table is still empty and
\* the wrap of the counter is two idle stretches away
StartFrames == {900}
\* lengths of the idle stretches (frames processed without a detection)
IdleLengths == {59, 60}

ZeroEntry == <<0, 0, 0, 0, 0>>

IsEmptySlot(e) == e[1] = 0 /\ e[2] = 0

IsGold(t) == t >= 4 /\ t <= 6

DistSq(e, x, y) == (e[1] - x) * (e[1] - x) + (e[2] - y) * (e[2] - y)

\* lowest index of a non-empty set of indices, 0 when the set is empty
FirstIndex(S) == IF S = {} THEN 0 ELSE CHOOSE i \in S : \A j \in S : i <= j

(***************************************************************************)
(* frameCounter(0) / IncrementFrameCounter                                 *)
(***************************************************************************)
\* variant: the wrap taken one increment early
frameCounterWrapEarly(v) == IF v + 1 >= FrameWrap THEN 0 ELSE v + 1

frameCounter(v) == IF v + 1 > FrameWrap THEN 0 ELSE v + 1

\* n successive calls: each adds 1 and the call made at FrameWrap returns to 0,
\* so the counter runs through the cycle 0..FrameWrap
frameCounterTimes(v, n) == (v + n) % (FrameWrap + 1)

(***************************************************************************)
(* The tracker: trackCoin and IsCoinAlreadyDetected.                       *)
(***************************************************************************)
distThreshold(coinType) == IF coinType >= 7 THEN EuroRadius ELSE SmallRadius

frameMemory(coinType) == IF coinType >= 7 THEN EuroMemory ELSE SmallMemory

\* gold entries within r pixels of (x, y)
GoldWithin(tbl, x, y, r) ==
    {i \in DOMAIN tbl : /\ ~IsEmptySlot(tbl[i])
                        /\ IsGold(tbl[i][3])
                        /\ DistSq(tbl[i], x, y) <= r * r}

\* vc_coin.cpp 152-169: the first gold entry within 85 px is cleared, then break
trackCoinReplace(tbl, x, y, coinType) ==
    LET g == FirstIndex(GoldWithin(tbl, x, y, ConflictRadius))
    IN  IF coinType >= 7 /\ g # 0 THEN [tbl EXCEPT ![g] = ZeroEntry] ELSE tbl

\* vc_coin_utils.cpp 91-119: every gold entry within 85 px is cleared
IsCoinAlreadyDetectedReplace(tbl, x, y, coinType) ==
    IF coinType >= 7
    THEN [i \in DOMAIN tbl |->
            IF i \in GoldWithin(tbl, x, y, ConflictRadius) THEN ZeroEntry ELSE tbl[i]]
    ELSE tbl

\* the valid frame window of the matching scan
\* variant: the window taken on the absolute frame difference
InWindowAbsolute(e, currentFrame, coinType) ==
    IF currentFrame >= e[4]
    THEN currentFrame - e[4] < frameMemory(coinType)
    ELSE e[4] - currentFrame < frameMemory(coinType)

InWindow(e, currentFrame, coinType) ==
    \/ currentFrame - e[4] < frameMemory(coinType)
    \/ e[4] > currentFrame

\* entries the matching scan accepts
Matching(tbl, x, y, coinType, currentFrame) ==
    {i \in DOMAIN tbl : /\ ~IsEmptySlot(tbl[i])
                        /\ DistSq(tbl[i], x, y) <= distThreshold(coinType) * distThreshold(coinType)
                        /\ InWindow(tbl[i], currentFrame, coinType)}

EmptySlots(tbl) == {i \in DOMAIN tbl : IsEmptySlot(tbl[i])}

\* variant: every call is stored as a new detection, matches are not looked for
TrackScanInsertOnly(tbl, x, y, coinType, countIt, currentFrame) ==
    LET emptyIndex == FirstIndex(EmptySlots(tbl))
    IN  IF emptyIndex # 0
        THEN [tbl |-> [tbl EXCEPT ![emptyIndex] = <<x, y, coinType, currentFrame, countIt>>],
              ret |-> 0]
        ELSE [tbl |-> tbl, ret |-> 0]

\* variant: a match marks the entry counted but leaves its last-seen frame as it was
TrackScanNoRefresh(tbl, x, y, coinType, countIt, currentFrame) ==
    LET existingIndex == FirstIndex(Matching(tbl, x, y, coinType, currentFrame))
        emptyIndex == FirstIndex(EmptySlots(tbl))
    IN  IF existingIndex # 0
        THEN LET e == tbl[existingIndex]
                 type == IF coinType >= 7 /\ IsGold(e[3]) THEN coinType ELSE e[3]
             IN  IF countIt = 1 /\ e[5] = 0
                 THEN [tbl |-> [tbl EXCEPT ![existingIndex] = <<x, y, type, e[4], 1>>],
                       ret |-> 0]
                 ELSE [tbl |-> [tbl EXCEPT ![existingIndex] = <<x, y, type, e[4], e[5]>>],
                       ret |-> e[5]]
        ELSE IF emptyIndex # 0
        THEN [tbl |-> [tbl EXCEPT ![emptyIndex] = <<x, y, coinType, currentFrame, countIt>>],
              ret |-> 0]
        ELSE [tbl |-> tbl, ret |-> 0]

\* variant: with no match and no free slot the detection overwrites the first entry
TrackScanOverwrite(tbl, x, y, coinType, countIt, currentFrame) ==
    LET existingIndex == FirstIndex(Matching(tbl, x, y, coinType, currentFrame))
        emptyIndex == FirstIndex(EmptySlots(tbl))
    IN  IF existingIndex # 0
        THEN LET e == tbl[existingIndex]
                 type == IF coinType >= 7 /\ IsGold(e[3]) THEN coinType ELSE e[3]
             IN  IF countIt = 1 /\ e[5] = 0
                 THEN [tbl |-> [tbl EXCEPT ![existingIndex] = <<x, y, type, currentFrame, 1>>],
                       ret |-> 0]
                 ELSE [tbl |-> [tbl EXCEPT ![existingIndex] = <<x, y, type, currentFrame, e[5]>>],
                       ret |-> e[5]]
        ELSE IF emptyIndex # 0
        THEN [tbl |-> [tbl EXCEPT ![emptyIndex] = <<x, y, coinType, currentFrame, countIt>>],
              ret |-> 0]
        ELSE [tbl |-> [tbl EXCEPT ![1] = <<x, y, coinType, currentFrame, countIt>>], ret |-> 0]

\* the scan and the update or insertion that follow the replacement step
\* variant: the scan accepts an entry only if it has the class of the call
TrackScanSameClass(tbl, x, y, coinType, countIt, currentFrame) ==
    LET existingIndex == FirstIndex({i \in Matching(tbl, x, y, coinType, currentFrame) :
                                        tbl[i][3] = coinType})
        emptyIndex == FirstIndex(EmptySlots(tbl))
    IN  IF existingIndex # 0
        THEN LET e == tbl[existingIndex]
             IN  IF countIt = 1 /\ e[5] = 0
                 THEN [tbl |-> [tbl EXCEPT ![existingIndex] = <<x, y, e[3], currentFrame, 1>>],
                       ret |-> 0]
                 ELSE [tbl |-> [tbl EXCEPT ![existingIndex] = <<x, y, e[3], currentFrame, e[5]>>],
                       ret |-> e[5]]
        ELSE IF emptyIndex # 0
        THEN [tbl |-> [tbl EXCEPT ![emptyIndex] = <<x, y, coinType, currentFrame, countIt>>],
              ret |-> 0]
        ELSE [tbl |-> tbl, ret |-> 0]

TrackScan(tbl, x, y, coinType, countIt, currentFrame) ==
    LET existingIndex == FirstIndex(Matching(tbl, x, y, coinType, currentFrame))
        emptyIndex == FirstIndex(EmptySlots(tbl))
    IN  IF existingIndex # 0
        THEN LET e == tbl[existingIndex]
                 type == IF coinType >= 7 /\ IsGold(e[3]) THEN coinType ELSE e[3]
             IN  IF countIt = 1 /\ e[5] = 0
                 THEN [tbl |-> [tbl EXCEPT ![existingIndex] = <<x, y, type, currentFrame, 1>>],
                       ret |-> 0]
                 ELSE [tbl |-> [tbl EXCEPT ![existingIndex] = <<x, y, type, currentFrame, e[5]>>],
                       ret |-> e[5]]
        ELSE IF emptyIndex # 0
        THEN [tbl |-> [tbl EXCEPT ![emptyIndex] = <<x, y, coinType, currentFrame, countIt>>],
              ret |-> 0]
        ELSE [tbl |-> tbl, ret |-> 0]

trackCoin(tbl, x, y, coinType, countIt, currentFrame) ==
    TrackScan(trackCoinReplace(tbl, x, y, coinType), x, y, coinType, countIt, currentFrame)

IsCoinAlreadyDetected(tbl, x, y, coinType, countIt, currentFrame) ==
    TrackScan(IsCoinAlreadyDetectedReplace(tbl, x, y, coinType), x, y, coinType, countIt, currentFrame)

\* record_and_check of the build that runs
RecordAndCheck(l, tbl, x, y, coinType, countIt, currentFrame) ==
    IF l = "vc_coin"
    THEN trackCoin(tbl, x, y, coinType, countIt, currentFrame)
    ELSE IsCoinAlreadyDetected(tbl, x, y, coinType, countIt, currentFrame)

(***************************************************************************)
(* correctGoldCoins, and the same loop inline in DetectEuroCoinsImproved.  *)
(***************************************************************************)
correctGoldCoins(tbl, cnt, x, y) ==
    LET g == FirstIndex(GoldWithin(tbl, x, y, CorrectRadius))
    IN  IF g = 0
        THEN [tbl |-> tbl, cnt |-> cnt]
        ELSE LET goldCounterIdx == tbl[g][3] - 1
             IN  [tbl |-> [tbl EXCEPT ![g] = ZeroEntry],
                  cnt |-> IF cnt[goldCounterIdx] > 0
                          THEN [cnt EXCEPT ![goldCounterIdx] = @ - 1]
                          ELSE cnt]

\* variant: the counter is decremented whether or not it is positive
InlineGoldCorrectionUnguarded(tbl, cnt, x, y) ==
    LET g == FirstIndex(GoldWithin(tbl, x, y, CorrectRadius))
    IN  IF g = 0
        THEN [tbl |-> tbl, cnt |-> cnt]
        ELSE [tbl |-> [tbl EXCEPT ![g] = ZeroEntry],
              cnt |-> [cnt EXCEPT ![tbl[g][3] - 1] = @ - 1]]

\* vc_coin_detection.cpp 554-595: the correction inline in DetectEuroCoinsImproved
InlineGoldCorrection(tbl, cnt, x, y) ==
    LET g == FirstIndex(GoldWithin(tbl, x, y, CorrectRadius))
    IN  IF g = 0
        THEN [tbl |-> tbl, cnt |-> cnt]
        ELSE LET goldCounterIdx == tbl[g][3] - 1
             IN  [tbl |-> [tbl EXCEPT ![g] = ZeroEntry],
                  cnt |-> IF cnt[goldCounterIdx] > 0
                          THEN [cnt EXCEPT ![goldCounterIdx] = @ - 1]
                          ELSE cnt]

\* correct_stale_class of the build that runs
CorrectStaleClass(l, tbl, cnt, x, y) ==
    IF l = "vc_coin" THEN correctGoldCoins(tbl, cnt, x, y)
    ELSE InlineGoldCorrection(tbl, cnt, x, y)

(***************************************************************************)
(* getCoinTypeAtLocation / GetLastCoinTypeAtLocation.                      *)
(***************************************************************************)
\* positions at which a class is looked up
LookupPoints == {<<130, 100>>, <<140, 100>>}

\* the loop from slot i on, nearestType and nearestDistSq as found so far
RECURSIVE NearestFrom(_, _, _, _, _, _)
NearestFrom(tbl, x, y, i, nearestType, nearestDistSq) ==
    IF i > Len(tbl) THEN nearestType
    ELSE IF IsEmptySlot(tbl[i]) THEN NearestFrom(tbl, x, y, i + 1, nearestType, nearestDistSq)
    ELSE IF /\ DistSq(tbl[i], x, y) < nearestDistSq
            /\ DistSq(tbl[i], x, y) <= LookupRadius * LookupRadius
         THEN NearestFrom(tbl, x, y, i + 1, tbl[i][3], DistSq(tbl[i], x, y))
         ELSE NearestFrom(tbl, x, y, i + 1, nearestType, nearestDistSq)

\* variant: the class of the first entry within the radius
getCoinTypeFirstWithin(tbl, x, y) ==
    LET near == {i \in DOMAIN tbl : /\ ~IsEmptySlot(tbl[i])
                                    /\ DistSq(tbl[i], x, y) <= LookupRadius * LookupRadius}
    IN  IF near = {} THEN 0 ELSE tbl[FirstIndex(near)][3]

getCoinTypeAtLocation(tbl, x, y) == NearestFrom(tbl, x, y, 1, 0, INT_MAX)

(***************************************************************************)
(* State of the tracker run.                                               *)
(***************************************************************************)
NoCall == [op |-> "none", x |-> 0, y |-> 0, type |-> 0, ret |-> 0, frame |-> 0,
           preCoins |-> <<>>, midCoins |-> <<>>, preCounters |-> <<>>]

NoStreak == [x |-> 0, y |-> 0, type |-> 0, news |-> 0, gap |-> 0]

\* the run of identical counting calls, each closer to the previous one than
\* the class memory window, after one more such call
StreakAfter(x, y, coinType, ret) ==
    LET new == IF ret = 0 THEN 1 ELSE 0
    IN  IF /\ streak.x = x /\ streak.y = y /\ streak.type = coinType
           /\ streak.gap < frameMemory(coinType)
        THEN [streak EXCEPT !.news = @ + new, !.gap = 0]
        ELSE [x |-> x, y |-> y, type |-> coinType, news |-> new, gap |-> 0]

Min(a, b) == IF a < b THEN a ELSE b

NoBlob == [op |-> "none", x |-> 0, y |-> 0, excluded |-> FALSE, by |-> 0,
           tried |-> <<>>, found |-> FALSE, wasFull |-> FALSE]

FrameIdle ==
    /\ excludeList = <<>>
    /\ frameNo = 0
    /\ addedIn = <<>>
    /\ live = {}
    /\ lastBlob = NoBlob

NoShape == [op |-> "none", xc |-> 0, yc |-> 0, width |-> 0, height |-> 0,
            area |-> 0, perimeter |-> 0, tol |-> 0, num |-> 0, den |-> 0,
            diameter |-> 0, cls |-> 0]

BlobIdle ==
    /\ img = <<>>
    /\ dst = <<>>
    /\ labeltable = <<>>
    /\ label = 1
    /\ scan = <<1, 1>>
    /\ blobs = <<>>
    /\ nlabels = 0
    /\ pc = "off"

Init ==
    /\ lib \in {"vc_coin", "vc_coin_utils"}
    /\ frameCountValue \in StartFrames
    /\ detectedCoins = [i \in 1..MAX_TRACKED_COINS |-> ZeroEntry]
    /\ counters = [i \in 0..7 |-> 0]
    /\ last = NoCall
    /\ ncalls = 0
    /\ nidle = 0
    /\ streak = NoStreak
    /\ BlobIdle
    /\ FrameIdle
    /\ shape = NoShape

\* processFrame / ProcessFrame on n successive frames in which no blob
\* qualifies: only the frame counter moves
IdleFrames(n) ==
    /\ nidle < MaxIdle
    /\ frameCountValue' = frameCounterTimes(frameCountValue, n)
    /\ nidle' = nidle + 1
    /\ streak' = [streak EXCEPT !.gap = Min(streak.gap + n, EuroMemory)]
    /\ UNCHANGED <<lib, detectedCoins, counters, last, ncalls>>
    /\ UNCHANGED <<blobVars, frameVars, shape>>

\* a gold or copper detector: if (!record_and_check(x, y, type, 1)) counters[type - 1]++
DetectCoin(x, y, coinType) ==
    /\ ncalls < MaxCalls
    /\ coinType < 7
    /\ LET r == RecordAndCheck(lib, detectedCoins, x, y, coinType, 1, frameCountValue)
       IN  /\ detectedCoins' = r.tbl
           /\ counters' = IF r.ret = 0
                          THEN [counters EXCEPT ![coinType - 1] = @ + 1]
                          ELSE counters
           /\ last' = [op |-> "detect", x |-> x, y |-> y, type |-> coinType,
                       ret |-> r.ret, frame |-> frameCountValue,
                       preCoins |-> detectedCoins, midCoins |-> detectedCoins,
                       preCounters |-> counters]
           /\ streak' = StreakAfter(x, y, coinType, r.ret)
    /\ ncalls' = ncalls + 1
    /\ UNCHANGED <<lib, frameCountValue, nidle>>
    /\ UNCHANGED <<blobVars, frameVars, shape>>

\* ProcessImage: int frameCoins[8] = {0}, made anew for every blob
frameCoins == [i \in 0..7 |-> 0]

\* the counter array a detector is handed: processFrame passes coinCounts,
\* ProcessImage passes frameCoins and adds it to coinCounts after the call
PassedCounters(l, cnt) == IF l = "vc_coin" THEN cnt ELSE frameCoins

\* coinCounts once the detector has returned
CountsAfter(l, cnt, passed) ==
    IF l = "vc_coin" THEN passed ELSE [j \in 0..7 |-> cnt[j] + passed[j]]

\* the euro detector: correct_stale_class, then record_and_check and the increment
DetectEuroCoin(x, y, coinType) ==
    /\ ncalls < MaxCalls
    /\ coinType >= 7
    /\ LET c == CorrectStaleClass(lib, detectedCoins, PassedCounters(lib, counters), x, y)
           r == RecordAndCheck(lib, c.tbl, x, y, coinType, 1, frameCountValue)
       IN  /\ detectedCoins' = r.tbl
           /\ counters' = CountsAfter(lib, counters,
                                      IF r.ret = 0
                                      THEN [c.cnt EXCEPT ![coinType - 1] = @ + 1]
                                      ELSE c.cnt)
           /\ last' = [op |-> "euro", x |-> x, y |-> y, type |-> coinType,
                       ret |-> r.ret, frame |-> frameCountValue,
                       preCoins |-> detectedCoins, midCoins |-> c.tbl,
                       preCounters |-> counters]
           /\ streak' = StreakAfter(x, y, coinType, r.ret)
    /\ ncalls' = ncalls + 1
    /\ UNCHANGED <<lib, frameCountValue, nidle>>
    /\ UNCHANGED <<blobVars, frameVars, shape>>

\* DrawBoundingBoxes: IsCoinAlreadyDetected(x, y, type, 0), tracking without counting
TrackOnly(x, y, coinType) ==
    /\ ncalls < MaxCalls
    /\ lib = "vc_coin_utils"
    /\ LET r == RecordAndCheck(lib, detectedCoins, x, y, coinType, 0, frameCountValue)
       IN  /\ detectedCoins' = r.tbl
           /\ last' = [op |-> "track", x |-> x, y |-> y, type |-> coinType,
                       ret |-> r.ret, frame |-> frameCountValue,
                       preCoins |-> detectedCoins, midCoins |-> detectedCoins,
                       preCounters |-> counters]
    /\ streak' = NoStreak
    /\ ncalls' = ncalls + 1
    /\ UNCHANGED <<lib, frameCountValue, counters, nidle>>
    /\ UNCHANGED <<blobVars, frameVars, shape>>

\* a detector on its edge path asks for the class last seen near (x, y)
LookupType(x, y) ==
    /\ ncalls < MaxCalls
    /\ last' = [op |-> "lookup", x |-> x, y |-> y, type |-> 0,
                ret |-> getCoinTypeAtLocation(detectedCoins, x, y),
                frame |-> frameCountValue,
                preCoins |-> detectedCoins, midCoins |-> detectedCoins,
                preCounters |-> counters]
    /\ ncalls' = ncalls + 1
    /\ UNCHANGED <<lib, frameCountValue, detectedCoins, counters, nidle, streak>>
    /\ UNCHANGED <<blobVars, frameVars, shape>>

Next ==
    \/ \E n \in IdleLengths : IdleFrames(n)
    \/ \E p \in Points, t \in CoinTypes : DetectCoin(p[1], p[2], t)
    \/ \E p \in Points, t \in CoinTypes : DetectEuroCoin(p[1], p[2], t)
    \/ \E p \in Points, t \in CoinTypes : TrackOnly(p[1], p[2], t)
    \/ \E p \in LookupPoints : LookupType(p[1], p[2])

Spec == Init /\ [][Next]_vars

(***************************************************************************)
(* record_and_check on its own: calls of trackCoin / IsCoinAlreadyDetected *)
(* and frames in between, nothing else touching the table.                 *)
(***************************************************************************)
RecordCall(x, y, coinType, countIt) ==
    /\ ncalls < MaxCalls
    /\ \E r \in {RecordAndCheck(lib, detectedCoins, x, y, coinType, countIt, frameCountValue)} :
          /\ detectedCoins' = r.tbl
          /\ last' = [op |-> IF countIt = 1 THEN "detect" ELSE "track",
                      x |-> x, y |-> y, type |-> coinType,
                      ret |-> r.ret, frame |-> frameCountValue,
                      preCoins |-> detectedCoins, midCoins |-> detectedCoins,
                      preCounters |-> counters]
    /\ streak' = NoStreak
    /\ ncalls' = ncalls + 1
    /\ UNCHANGED <<lib, frameCountValue, counters, nidle>>
    /\ UNCHANGED <<blobVars, frameVars, shape>>

NextTrack ==
    \/ \E n \in IdleLengths : IdleFrames(n)
    \/ \E p \in Points, t \in CoinTypes, c \in {0, 1} : RecordCall(p[1], p[2], t, c)

SpecTrack == Init /\ [][NextTrack]_vars

(***************************************************************************)
(* The tracker as the library offers it: counting detections, euro         *)
(* detections with their correction, and record_and_check with countIt 0   *)
(* or 1, in either build.                                                  *)
(***************************************************************************)
NextApi ==
    \/ \E n \in IdleLengths : IdleFrames(n)
    \/ \E p \in Points, t \in CoinTypes : DetectCoin(p[1], p[2], t)
    \/ \E p \in Points, t \in CoinTypes : DetectEuroCoin(p[1], p[2], t)
    \/ \E p \in Points, t \in CoinTypes, c \in {0, 1} : RecordCall(p[1], p[2], t, c)

SpecApi == Init /\ [][NextApi]_vars

(***************************************************************************)
(* The region labeler: processFrame hands one raster to blobLabel and the  *)
(* regions it returns to blobInfo.                                         *)
(***************************************************************************)
Max(a, b) == IF a > b THEN a ELSE b

\* VC_MAX of vc.h
VC_MAX(a, b) == IF a > b THEN a ELSE b

\* an IVC: data is indexed from 0, hasData is FALSE for a NULL data pointer
IVC(width, height, channels, hasData, data) ==
    [width |-> width, height |-> height, channels |-> channels,
     bytesperline |-> width * channels, hasData |-> hasData, data |-> data]

Interior(width, height) == (1..(width - 2)) \X (1..(height - 2))

IsBorder(p, width, height) ==
    \/ p % width = 0
    \/ p % width = width - 1
    \/ p \div width = 0
    \/ p \div width = height - 1

\* small rasters: any set of interior pixels in the foreground, the border
\* either background or foreground, foreground written as 255 or as 1
SmallRaster(S, v, b) ==
    IVC(SmallWidth, SmallHeight, 1, TRUE,
        [p \in 0..(SmallWidth * SmallHeight - 1) |->
            IF IsBorder(p, SmallWidth, SmallHeight) THEN b
            ELSE IF <<p % SmallWidth, p \div SmallWidth>> \in S THEN v ELSE 0])

SmallRasters ==
    {SmallRaster(S, vb[1], vb[2]) : S \in SUBSET Interior(SmallWidth, SmallHeight),
                                    vb \in {<<Foreground, 0>>, <<1, 1>>}}

\* comb rasters: three rows, n isolated foreground pixels on the middle row
CombRaster(n) ==
    IVC(2 * n + 1, 3, 1, TRUE,
        [p \in 0..(3 * (2 * n + 1) - 1) |->
            IF p \div (2 * n + 1) = 1 /\ (p % (2 * n + 1)) % 2 = 1 THEN Foreground ELSE 0])

CombRasters == {CombRaster(n) : n \in (PixelRange - 1)..MaxIsolated}

BlankData == [p \in 0..3 |-> 0]

\* pairs <<src, dst>> the input validation of blobLabel turns down
InvalidInputs ==
    {<<IVC(0, 2, 1, TRUE, BlankData), IVC(0, 2, 1, TRUE, BlankData)>>,
     <<IVC(2, 0, 1, TRUE, BlankData), IVC(2, 0, 1, TRUE, BlankData)>>,
     <<IVC(2, 2, 1, FALSE, BlankData), IVC(2, 2, 1, TRUE, BlankData)>>,
     <<IVC(2, 2, 1, TRUE, BlankData), IVC(1, 2, 1, TRUE, BlankData)>>,
     <<IVC(2, 2, 1, TRUE, BlankData), IVC(2, 1, 1, TRUE, BlankData)>>,
     <<IVC(2, 2, 1, TRUE, BlankData), IVC(2, 2, 3, TRUE, BlankData)>>,
     <<IVC(1, 2, 2, TRUE, BlankData), IVC(1, 2, 2, TRUE, BlankData)>>}

\* processFrame labels in place: src and dst are the same image
ValidInputs == {<<r, r>> : r \in SmallRasters \cup CombRasters}

\* the parameter checks of blobLabel
ValidInput(src, d) ==
    /\ ~(src.width <= 0 \/ src.height <= 0 \/ ~src.hasData)
    /\ ~(src.width # d.width \/ src.height # d.height \/ src.channels # d.channels)
    /\ src.channels = 1

maxlabels(src) == Max(MinLabels, (src.width * src.height) \div 4)

\* memcpy, binarisation and clearing of the border
BinaryCopy(src) ==
    [p \in 0..(src.width * src.height - 1) |->
        IF IsBorder(p, src.width, src.height) THEN 0
        ELSE IF src.data[p] # 0 THEN Foreground ELSE 0]

InitBlob ==
    /\ lib = "vc_coin"
    /\ frameCountValue = 0
    /\ detectedCoins = [i \in 1..MAX_TRACKED_COINS |-> ZeroEntry]
    /\ counters = [i \in 0..7 |-> 0]
    /\ last = NoCall
    /\ ncalls = 0
    /\ nidle = 0
    /\ streak = NoStreak
    /\ \E in \in ValidInputs \cup InvalidInputs : img = in[1] /\ dst = in[2]
    /\ labeltable = <<>>
    /\ label = 1
    /\ scan = <<1, 1>>
    /\ blobs = <<>>
    /\ nlabels = 0
    /\ pc = "call"
    /\ FrameIdle
    /\ shape = NoShape

\* blobLabel up to the labeling scan: the checks, the copy, the border
blobLabelEnter ==
    /\ pc = "call"
    /\ IF ValidInput(img, dst)
       THEN /\ dst' = [dst EXCEPT !.data = BinaryCopy(img)]
            /\ labeltable' = [a \in 0..(maxlabels(img) - 1) |-> 0]
            /\ pc' = IF Interior(img.width, img.height) = {} THEN "finish" ELSE "scan"
       ELSE /\ pc' = "labelled"
            /\ UNCHANGED <<dst, labeltable>>
    /\ UNCHANGED <<img, label, scan, blobs, nlabels>>
    /\ UNCHANGED <<trackVars, frameVars, shape>>

\* for (a = 1; a < label; a++) if (labeltable[a] == tmplabel) labeltable[a] = num
Redirect(lt, lab, d, num) ==
    IF d # 0 /\ lt[d] # num
    THEN [a \in DOMAIN lt |-> IF a >= 1 /\ a < lab /\ lt[a] = lt[d] THEN num ELSE lt[a]]
    ELSE lt

\* the minimum label among the labelled neighbours A, B, C, D
MinNeighbour(lt, dA, dB, dC, dD) ==
    LET numA == IF dA # 0 THEN lt[dA] ELSE 255
        numB == IF dB # 0 /\ lt[dB] < numA THEN lt[dB] ELSE numA
        numC == IF dC # 0 /\ lt[dC] < numB THEN lt[dC] ELSE numB
    IN  IF dD # 0 /\ lt[dD] < numC THEN lt[dD] ELSE numC

\* one iteration of the labeling scan, at pixel scan = <<x, y>>
blobLabelScan ==
    /\ pc = "scan"
    /\ LET x == scan[1]
           y == scan[2]
           bytesperline == img.width * img.channels
           posA == (y - 1) * bytesperline + (x - 1)
           posB == (y - 1) * bytesperline + x
           posC == (y - 1) * bytesperline + (x + 1)
           posD == y * bytesperline + (x - 1)
           posX == y * bytesperline + x
           d == dst.data
           num == MinNeighbour(labeltable, d[posA], d[posB], d[posC], d[posD])
       IN  /\ IF d[posX] = 0
              THEN UNCHANGED <<dst, labeltable, label>>
              ELSE IF d[posA] = 0 /\ d[posB] = 0 /\ d[posC] = 0 /\ d[posD] = 0
              THEN /\ dst' = [dst EXCEPT !.data[posX] = label % PixelRange]
                   /\ labeltable' = [labeltable EXCEPT ![label] = label]
                   /\ label' = label + 1
              ELSE /\ dst' = [dst EXCEPT !.data[posX] = num % PixelRange]
                   /\ labeltable' =
                        Redirect(Redirect(Redirect(Redirect(
                            [labeltable EXCEPT ![num] = num],
                            label, d[posA], num), label, d[posB], num),
                            label, d[posC], num), label, d[posD], num)
                   /\ UNCHANGED label
           /\ IF x < img.width - 2
              THEN scan' = <<x + 1, y>> /\ pc' = "scan"
              ELSE IF y < img.height - 2
              THEN scan' = <<1, y + 1>> /\ pc' = "scan"
              ELSE scan' = scan /\ pc' = "finish"
    /\ UNCHANGED <<img, blobs, nlabels>>
    /\ UNCHANGED <<trackVars, frameVars, shape>>

\* the second pass: every labelled pixel takes the table's label
Relabel(src, d, lt) ==
    [p \in DOMAIN d |->
        IF ~IsBorder(p, src.width, src.height) /\ d[p] # 0
        THEN lt[d[p]] % PixelRange ELSE d[p]]

\* removal of the duplicates: labeltable[b] = 0 when an earlier index holds its value
Deduplicate(lt, lab) ==
    [b \in DOMAIN lt |->
        IF b >= 2 /\ b < lab /\ (\E a \in 1..(b - 1) : lt[a] = lt[b]) THEN 0 ELSE lt[b]]

IsNonZero(v) == v # 0

\* the labels that survive, in the order the compaction stores them
Survivors(lt, lab) == SelectSeq([a \in 1..(lab - 1) |-> lt[a]], IsNonZero)

\* calloc(*nlabels, sizeof(OVC)) with the labels filled in
NewBlobs(list) ==
    [a \in 1..Len(list) |->
        [x |-> 0, y |-> 0, width |-> 0, height |-> 0, area |-> 0,
         xc |-> 0, yc |-> 0, perimeter |-> 0, label |-> list[a]]]

\* blobLabel after the scan: relabeling, count and the list it returns
blobLabelFinish ==
    /\ pc = "finish"
    /\ \E unique \in {Deduplicate(labeltable, label)} :
         \E list \in {Survivors(unique, label)} :
           /\ dst' = [dst EXCEPT !.data = Relabel(img, dst.data, labeltable)]
           /\ labeltable' = [a \in DOMAIN unique |->
                                IF a < Len(list) THEN list[a + 1] ELSE unique[a]]
           /\ nlabels' = Len(list)
           /\ blobs' = IF Len(list) = 0 THEN <<>> ELSE NewBlobs(list)
    /\ pc' = "labelled"
    /\ UNCHANGED <<img, label, scan>>
    /\ UNCHANGED <<trackVars, frameVars, shape>>

MinOf(S) == CHOOSE m \in S : \A n \in S : m <= n
MaxOf(S) == CHOOSE m \in S : \A n \in S : m >= n

\* variant: coordinates accumulated counting from 1 instead of from 0
SumCoordOneBased(S, k) == Cardinality(UNION {{<<p, c>> : c \in 0..p[k]} : p \in S})

\* sum of f over the pixels of S, f being the x (k = 1) or y (k = 2) coordinate
SumCoord(S, k) == Cardinality(UNION {{<<p, c>> : c \in 1..p[k]} : p \in S})

\* variant: a perimeter pixel has no neighbour at all inside the region
NoNeighbourInside(data, pos, bytesperline, lab) ==
    /\ data[pos - 1] # lab
    /\ data[pos + 1] # lab
    /\ data[pos - bytesperline] # lab
    /\ data[pos + bytesperline] # lab

\* the perimeter test: at least one 4-neighbour does not carry the label
IsPerimeterPixel(data, pos, bytesperline, lab) ==
    \/ data[pos - 1] # lab
    \/ data[pos + 1] # lab
    \/ data[pos - bytesperline] # lab
    \/ data[pos + bytesperline] # lab

\* blobInfo: the features of every region of the labelled raster
blobInfo(src, bl, nblobs) ==
    [i \in 1..nblobs |->
        LET lab == bl[i].label
            data == src.data
            pos(p) == p[2] * src.bytesperline + p[1]
            member == {p \in Interior(src.width, src.height) : data[pos(p)] = lab}
            edge == {p \in member : IsPerimeterPixel(data, pos(p), src.bytesperline, lab)}
            xmin == IF member = {} THEN src.width - 1 ELSE MinOf({p[1] : p \in member})
            ymin == IF member = {} THEN src.height - 1 ELSE MinOf({p[2] : p \in member})
            xmax == IF member = {} THEN 0 ELSE MaxOf({p[1] : p \in member})
            ymax == IF member = {} THEN 0 ELSE MaxOf({p[2] : p \in member})
            area == Cardinality(member)
        IN  [x |-> xmin, y |-> ymin,
             width |-> (xmax - xmin) + 1, height |-> (ymax - ymin) + 1,
             area |-> area,
             xc |-> SumCoord(member, 1) \div VC_MAX(area, 1),
             yc |-> SumCoord(member, 2) \div VC_MAX(area, 1),
             perimeter |-> Cardinality(edge),
             label |-> lab]]

\* processFrame: if (blobs && nlabels > 0) blobInfo(binaryImage, blobs, nlabels)
processFrameBlobInfo ==
    /\ pc = "labelled"
    /\ blobs' = IF blobs # <<>> /\ nlabels > 0 THEN blobInfo(dst, blobs, nlabels) ELSE blobs
    /\ pc' = "done"
    /\ UNCHANGED <<img, dst, labeltable, label, scan, nlabels>>
    /\ UNCHANGED <<trackVars, frameVars, shape>>

NextBlob ==
    \/ blobLabelEnter
    \/ blobLabelScan
    \/ blobLabelFinish
    \/ processFrameBlobInfo

SpecBlob == InitBlob /\ [][NextBlob]_vars

(***************************************************************************)
(* The exclusion list and the frame drivers: processFrame (lib/vc_coin)    *)
(* and ProcessFrame with ProcessImage (lib/vc_coin_utils).  What a family  *)
(* classifier answers depends on the image and is an input here; the       *)
(* tracking it does is the subject of Spec.                                *)
(***************************************************************************)
\* centroids of the main blobs and of the family blobs matched to them
FramePoints == {<<100, 100>>, <<120, 100>>, <<200, 100>>}

\* positions handed to excludeCoin directly
ExclPoints == {<<0, 0>>, <<20, 0>>, <<100, 100>>, <<120, 100>>}

Families == {"euro", "gold", "copper"}

Dist2(a, b) == (a[1] - b[1]) * (a[1] - b[1]) + (a[2] - b[2]) * (a[2] - b[2])

IsFreeSlot(e) == e[1] = 0 /\ e[2] = 0

FreeSlots(list) == {i \in DOMAIN list : IsFreeSlot(list[i])}

\* excludeCoin / ExcludeCoin: option 0 adds, option 1 removes
excludeCoin(list, xc, yc, option) ==
    IF option = 0
    THEN IF FreeSlots(list) = {} THEN list
         ELSE [list EXCEPT ![FirstIndex(FreeSlots(list))] = <<xc, yc>>]
    ELSE IF option = 1
    THEN [i \in DOMAIN list |->
            IF ~IsFreeSlot(list[i]) /\ Dist2(list[i], <<xc, yc>>) <= ExcludeRadius * ExcludeRadius
            THEN <<0, 0>> ELSE list[i]]
    ELSE list

\* slots whose entry lies within the threshold of (xc, yc)
ExcludingSlots(list, xc, yc) ==
    {j \in DOMAIN list :
        /\ ~IsFreeSlot(list[j])
        /\ Dist2(list[j], <<xc, yc>>) <= ExcludeRadius * ExcludeRadius}

\* the exclusion test of the frame drivers
isExcluded(list, xc, yc) == ExcludingSlots(list, xc, yc) # {}

\* the order in which a driver calls the family classifiers
ClassifierOrder(l) ==
    IF l = "vc_coin" THEN <<"euro", "gold", "copper">> ELSE <<"gold", "copper", "euro">>

\* processFrame calls a classifier only if its blob list is not empty;
\* ProcessImage puts that condition on the euro classifier only
IsCalled(l, family, avail) ==
    IF l = "vc_coin" THEN family \in avail ELSE family # "euro" \/ family \in avail

Candidates(l, avail) ==
    LET o == ClassifierOrder(l)
    IN  (IF IsCalled(l, o[1], avail) THEN <<o[1]>> ELSE <<>>)
        \o (IF IsCalled(l, o[2], avail) THEN <<o[2]>> ELSE <<>>)
        \o (IF IsCalled(l, o[3], avail) THEN <<o[3]>> ELSE <<>>)

\* the classifiers called for one blob: those up to the first that answers true
Tried(c, ans) ==
    LET hits == {i \in DOMAIN c : ans[c[i]]}
    IN  IF hits = {} THEN c ELSE SubSeq(c, 1, FirstIndex(hits))

InitFrame ==
    /\ lib \in {"vc_coin", "vc_coin_utils"}
    /\ frameCountValue = 0
    /\ detectedCoins = [i \in 1..MAX_TRACKED_COINS |-> ZeroEntry]
    /\ counters = [i \in 0..7 |-> 0]
    /\ last = NoCall
    /\ ncalls = 0
    /\ nidle = 0
    /\ streak = NoStreak
    /\ BlobIdle
    /\ excludeList = [i \in 1..MAX_COINS |-> <<0, 0>>]
    /\ frameNo = 0
    /\ addedIn = [i \in 1..MAX_COINS |-> 0]
    /\ live = {}
    /\ lastBlob = NoBlob
    /\ shape = NoShape

\* entry of processFrame / ProcessFrame: the frame counter advances, the
\* exclusion list is left as the previous frame left it
BeginFrame ==
    /\ frameNo < MaxFrames
    /\ frameNo' = frameNo + 1
    /\ frameCountValue' = frameCounter(frameCountValue)
    /\ lastBlob' = [NoBlob EXCEPT !.op = "begin"]
    /\ UNCHANGED <<excludeList, addedIn, live>>
    /\ UNCHANGED <<lib, detectedCoins, counters, last, ncalls, nidle, streak>>
    /\ UNCHANGED <<blobVars, shape>>

\* one main blob at p that passed the size filters: the exclusion test, then
\* the classifiers; the one that answers true adds q, the centroid of the
\* family blob it chose.  The gold and copper classifiers choose a family
\* blob within the threshold of p, the euro classifier the largest round one.
ProcessBlob(p, q, avail, ans) ==
    /\ frameNo >= 1
    /\ \/ Dist2(p, q) <= ExcludeRadius * ExcludeRadius
       \/ LET tried == Tried(Candidates(lib, avail), ans)
          IN  tried # <<>> /\ tried[Len(tried)] = "euro" /\ ans["euro"]
    /\ IF isExcluded(excludeList, p[1], p[2])
       THEN /\ lastBlob' = [NoBlob EXCEPT !.op = "blob", !.x = p[1], !.y = p[2],
                               !.excluded = TRUE,
                               !.by = addedIn[FirstIndex(ExcludingSlots(excludeList, p[1], p[2]))]]
            /\ UNCHANGED <<excludeList, addedIn, live>>
       ELSE LET tried == Tried(Candidates(lib, avail), ans)
                found == \E i \in DOMAIN tried : ans[tried[i]]
                free == FreeSlots(excludeList)
            IN  /\ lastBlob' = [NoBlob EXCEPT !.op = "blob", !.x = p[1], !.y = p[2],
                                   !.tried = tried, !.found = found,
                                   !.wasFull = (free = {})]
                /\ IF found
                   THEN /\ excludeList' = excludeCoin(excludeList, q[1], q[2], 0)
                        /\ addedIn' = IF free = {} THEN addedIn
                                      ELSE [addedIn EXCEPT ![FirstIndex(free)] = frameNo]
                        /\ live' = IF free = {} THEN live ELSE live \cup {q}
                   ELSE UNCHANGED <<excludeList, addedIn, live>>
    /\ UNCHANGED frameNo
    /\ UNCHANGED <<trackVars, blobVars, shape>>

NextFrame ==
    \/ BeginFrame
    \/ \E p \in FramePoints, q \in FramePoints, avail \in SUBSET Families,
          ans \in [Families -> BOOLEAN] : ProcessBlob(p, q, avail, ans)

SpecFrame == InitFrame /\ [][NextFrame]_vars

\* excludeCoin(excludeList, x, y, 0) called on its own
ExcludeAdd(p) ==
    /\ excludeList' = excludeCoin(excludeList, p[1], p[2], 0)
    /\ live' = IF FreeSlots(excludeList) = {} THEN live ELSE live \cup {p}
    /\ lastBlob' = [NoBlob EXCEPT !.op = "add", !.x = p[1], !.y = p[2],
                       !.wasFull = (FreeSlots(excludeList) = {})]
    /\ UNCHANGED <<frameNo, addedIn>>
    /\ UNCHANGED <<trackVars, blobVars, shape>>

\* excludeCoin(excludeList, x, y, 1) called on its own
ExcludeRemove(p) ==
    /\ excludeList' = excludeCoin(excludeList, p[1], p[2], 1)
    /\ live' = {l \in live : Dist2(l, p) > ExcludeRadius * ExcludeRadius}
    /\ lastBlob' = [NoBlob EXCEPT !.op = "remove", !.x = p[1], !.y = p[2]]
    /\ UNCHANGED <<frameNo, addedIn>>
    /\ UNCHANGED <<trackVars, blobVars, shape>>

NextExclude ==
    \/ \E p \in ExclPoints : ExcludeAdd(p)
    \/ \E p \in ExclPoints : ExcludeRemove(p)

SpecExclude == InitFrame /\ [][NextExclude]_vars

(***************************************************************************)
(* Shape features of a region: the adaptive tolerance and the circularity. *)
(* Tolerances are in units of 1/10000; a circularity is the pair num, den  *)
(* of a fraction; rounding of float arithmetic is left out.                *)
(***************************************************************************)
\* sizes of the frames of the video
FrameSizes == {<<640, 480>>, <<1280, 720>>}

\* centroids of regions
CentroidXs == {0, 25, 49, 50, 320, 590, 615, 639, 700, 1279}
CentroidYs == {0, 30, 240, 460, 479, 600}

\* areas and perimeters of regions: blobInfo gives 0 <= perimeter <= area
Areas == {0, 1, 4, 2500, 9000, 46341, 70000, 150000}
Perimeters == {0, 1, 4, 100, 46340, 46341, 65536, 70000}

Min4(a, b, c, d) == Min(Min(a, b), Min(c, d))

\* adaptTolerance / CalculateAdaptiveTolerance:
\* tolerance *= 1.0f + 0.5f * (1.0f - minDist / edgeMargin) when minDist < edgeMargin
CalculateAdaptiveTolerance(xc, yc, fw, fh) ==
    LET minDist == Min4(xc, fw - xc, yc, fh - yc)
    IN  IF minDist < edgeMargin
        THEN (BASE_TOLERANCE * (100 + (50 * (edgeMargin - minDist)) \div edgeMargin)) \div 100
        ELSE BASE_TOLERANCE

\* perimeter * perimeter in 32-bit two's complement, for 0 <= p < 2^20,
\* computed on 16-bit halves: the wrapped value of the overflowing product
WrappedSquare(p) ==
    LET a == p \div Half
        b == p % Half
        c == b \div 256
        d == b % 256
        t == 2 * c * d * 256 + d * d
        lo == t % Half
        hi == (c * c + t \div Half + 2 * a * b) % Half
    IN  IF hi >= HalfSign THEN (hi - Half) * Half + lo ELSE hi * Half + lo

\* what perimeter * perimeter gives: the product if it fits an int; if it
\* does not, the behaviour is undefined and a build either wraps or traps
SquareOutcomes(p) ==
    IF p <= 46340 THEN {[trap |-> FALSE, value |-> p * p]}
    ELSE {[trap |-> FALSE, value |-> WrappedSquare(p)], [trap |-> TRUE, value |-> 0]}

\* 4.0f * PI * (float)area, in whole units
FourPiArea(area) == FourPi * (area \div 1000) + (FourPi * (area % 1000)) \div 1000

\* getCircularity / CalculateCircularity on the int product sq: num / den,
\* den = 0 standing for a division by zero that gave NaN
getCircularity(area, perimeter, sq) ==
    IF perimeter <= 0 THEN [num |-> 0, den |-> 1]
    ELSE IF sq = 0
    THEN IF area > 0 THEN [num |-> 1, den |-> 1] ELSE [num |-> 0, den |-> 0]
    ELSE IF sq > 0 /\ FourPiArea(area) > sq THEN [num |-> 1, den |-> 1]
    ELSE [num |-> FourPiArea(area), den |-> sq]

InitShape ==
    /\ lib \in {"vc_coin", "vc_coin_utils"}
    /\ frameCountValue = 0
    /\ detectedCoins = [i \in 1..MAX_TRACKED_COINS |-> ZeroEntry]
    /\ counters = [i \in 0..7 |-> 0]
    /\ last = NoCall
    /\ ncalls = 0
    /\ nidle = 0
    /\ streak = NoStreak
    /\ BlobIdle
    /\ FrameIdle
    /\ \E size \in FrameSizes, x \in CentroidXs, y \in CentroidYs,
          area \in Areas, perimeter \in Perimeters :
          /\ x < size[1]
          /\ y < size[2]
          /\ perimeter <= area
          /\ shape = [NoShape EXCEPT !.op = "region", !.xc = x, !.yc = y,
                         !.width = size[1], !.height = size[2],
                         !.area = area, !.perimeter = perimeter]

\* a detector asks for the tolerance at the centroid of a region
AdaptTolerance ==
    /\ shape.op = "region"
    /\ shape' = [shape EXCEPT !.op = "tolerance",
                    !.tol = CalculateAdaptiveTolerance(shape.xc, shape.yc,
                                                       frameWidth, frameHeight)]
    /\ UNCHANGED <<trackVars, blobVars, frameVars>>

\* a detector asks for the circularity of a region
Circularity ==
    /\ shape.op = "region"
    /\ \E sq \in SquareOutcomes(shape.perimeter) :
          IF sq.trap /\ shape.perimeter > 0
          THEN shape' = [shape EXCEPT !.op = "trap"]
          ELSE \E c \in {getCircularity(shape.area, shape.perimeter, sq.value)} :
                  shape' = [shape EXCEPT !.op = "circularity", !.num = c.num, !.den = c.den]
    /\ UNCHANGED <<trackVars, blobVars, frameVars>>

NextShape ==
    \/ AdaptTolerance
    \/ Circularity

SpecShape == InitShape /\ [][NextShape]_vars

(***************************************************************************)
(* The frame counter on its own: frameCounter(reset) of lib/vc_coin and    *)
(* IncrementFrameCounter of lib/vc_coin_utils, called once per frame.      *)
(***************************************************************************)
\* frameCounter(0) / IncrementFrameCounter()
IncrementFrameCounter ==
    /\ frameCountValue' = frameCounter(frameCountValue)
    /\ last' = [NoCall EXCEPT !.op = "increment", !.frame = frameCountValue]
    /\ UNCHANGED <<lib, detectedCoins, counters, ncalls, nidle, streak>>
    /\ UNCHANGED <<blobVars, frameVars, shape>>

\* frameCounter(1): if (reset) frameCountValue = 0
ResetFrameCounter ==
    /\ lib = "vc_coin"
    /\ frameCountValue' = 0
    /\ last' = [NoCall EXCEPT !.op = "reset", !.frame = frameCountValue]
    /\ UNCHANGED <<lib, detectedCoins, counters, ncalls, nidle, streak>>
    /\ UNCHANGED <<blobVars, frameVars, shape>>

NextCounter ==
    \/ IncrementFrameCounter
    \/ ResetFrameCounter

SpecCounter == InitFrame /\ [][NextCounter]_vars

(***************************************************************************)
(* The size classification of DetectGoldCoinsImproved and                  *)
(* DetectBronzeCoinsImproved (lib/vc_coin_detection) for one family blob   *)
(* that passed the area, distance and circularity filters.  Diameters are  *)
(* whole pixels, tolerances in units of 1/10000.                           *)
(***************************************************************************)
D_1CENT == 122
D_2CENT == 135
D_5CENT == 152
D_10CENT == 143
D_20CENT == 160
D_50CENT == 174

\* EDGE_MARGIN of the two detectors
GoldEdgeMargin == 90
CopperEdgeMargin == 80

\* a family: the class of its smallest denomination, the three nominal
\* diameters in the order the detector tests them, and its edge margin
GoldFamily == [name |-> "gold", base |-> 4,
               D |-> <<D_10CENT, D_20CENT, D_50CENT>>, margin |-> GoldEdgeMargin]
CopperFamily == [name |-> "copper", base |-> 1,
                 D |-> <<D_1CENT, D_2CENT, D_5CENT>>, margin |-> CopperEdgeMargin]

\* centroids of family blobs: two near the left edge 40 px apart, one central
ClassifyPoints == {<<45, 240>>, <<85, 240>>, <<320, 240>>}

\* circular diameters of family blobs
Diameters == {100, 122, 143, 152, 174}

Abs(a) == IF a < 0 THEN 0 - a ELSE a

\* diameter >= D * (1.0f - tolerance) && diameter <= D * (1.0f + tolerance)
InBand(d, D, tol) == d * 10000 >= D * (10000 - tol) /\ d * 10000 <= D * (10000 + tol)

\* the if / else if chain of the regular classification; 0: no band holds d
RegularClass(fam, d, tol) ==
    IF InBand(d, fam.D[1], tol) THEN fam.base
    ELSE IF InBand(d, fam.D[2], tol) THEN fam.base + 1
    ELSE IF InBand(d, fam.D[3], tol) THEN fam.base + 2
    ELSE 0

\* fabsf(d / Da - 1.0f) < fabsf(d / Db - 1.0f)
RatioCloser(d, Da, Db) == Abs(d - Da) * Db < Abs(d - Db) * Da

\* bestGuessType + 1
BestGuess(fam, d) ==
    IF RatioCloser(d, fam.D[1], fam.D[2]) /\ RatioCloser(d, fam.D[1], fam.D[3])
    THEN fam.base
    ELSE IF RatioCloser(d, fam.D[2], fam.D[1]) /\ RatioCloser(d, fam.D[2], fam.D[3])
    THEN fam.base + 1
    ELSE fam.base + 2

IsNearEdge(xc, yc, margin) ==
    xc < margin \/ yc < margin \/ xc > frameWidth - margin \/ yc > frameHeight - margin

\* the class the detector gives the blob, 0 if it gives none: near the edge
\* the class tracked there before if it is of the family, else the best
\* guess; away from the edge the regular classification
ClassOf(fam, tbl, xc, yc, d) ==
    IF IsNearEdge(xc, yc, fam.margin)
    THEN LET coinType == getCoinTypeAtLocation(tbl, xc, yc)
         IN  IF coinType >= fam.base /\ coinType <= fam.base + 2
             THEN coinType
             ELSE BestGuess(fam, d)
    ELSE RegularClass(fam, d, CalculateAdaptiveTolerance(xc, yc, frameWidth, frameHeight))

\* int correctedYC = yc + (int)(diameter * 0.05f) of the copper detector;
\* the gold detector excludes the centroid itself
ExcludedY(fam, yc, d) == IF fam.name = "copper" THEN yc + (d * 5) \div 100 ELSE yc

InitClassify ==
    /\ lib = "vc_coin_utils"
    /\ frameCountValue = 0
    /\ detectedCoins = [i \in 1..MAX_TRACKED_COINS |-> ZeroEntry]
    /\ counters = [i \in 0..7 |-> 0]
    /\ last = NoCall
    /\ ncalls = 0
    /\ nidle = 0
    /\ streak = NoStreak
    /\ BlobIdle
    /\ excludeList = [i \in 1..MAX_COINS |-> <<0, 0>>]
    /\ frameNo = 0
    /\ addedIn = [i \in 1..MAX_COINS |-> 0]
    /\ live = {}
    /\ lastBlob = NoBlob
    /\ shape = NoShape

\* ProcessImage hands a main blob that is not excluded to the detector of the
\* family, whose blob has the same centroid and the circular diameter d
DetectFamilyCoin(fam, xc, yc, d) ==
    /\ frameNo >= 1
    /\ ncalls < MaxCalls
    /\ ~isExcluded(excludeList, xc, yc)
    /\ \E cls \in {ClassOf(fam, detectedCoins, xc, yc, d)} :
          /\ shape' = [NoShape EXCEPT !.op = fam.name, !.xc = xc, !.yc = yc,
                          !.width = frameWidth, !.height = frameHeight,
                          !.tol = CalculateAdaptiveTolerance(xc, yc, frameWidth, frameHeight),
                          !.diameter = d, !.cls = cls]
          /\ IF cls = 0
             THEN UNCHANGED <<detectedCoins, counters, last, streak,
                              excludeList, addedIn, live>>
             ELSE \E r \in {RecordAndCheck(lib, detectedCoins, xc, yc, cls, 1, frameCountValue)} :
                     /\ detectedCoins' = r.tbl
                     /\ counters' = IF r.ret = 0
                                    THEN [counters EXCEPT ![cls - 1] = @ + 1]
                                    ELSE counters
                     /\ last' = [op |-> "detect", x |-> xc, y |-> yc, type |-> cls,
                                 ret |-> r.ret, frame |-> frameCountValue,
                                 preCoins |-> detectedCoins, midCoins |-> detectedCoins,
                                 preCounters |-> counters]
                     /\ streak' = StreakAfter(xc, yc, cls, r.ret)
                     /\ excludeList' = excludeCoin(excludeList, xc, ExcludedY(fam, yc, d), 0)
                     /\ addedIn' = IF FreeSlots(excludeList) = {} THEN addedIn
                                   ELSE [addedIn EXCEPT ![FirstIndex(FreeSlots(excludeList))] = frameNo]
                     /\ live' = IF FreeSlots(excludeList) = {} THEN live
                                ELSE live \cup {<<xc, ExcludedY(fam, yc, d)>>}
    /\ ncalls' = ncalls + 1
    /\ lastBlob' = [NoBlob EXCEPT !.op = "blob", !.x = xc, !.y = yc]
    /\ UNCHANGED <<lib, frameCountValue, nidle, frameNo>>
    /\ UNCHANGED blobVars

NextClassify ==
    \/ BeginFrame
    \/ \E p \in ClassifyPoints, d \in Diameters : DetectFamilyCoin(GoldFamily, p[1], p[2], d)
    \/ \E p \in ClassifyPoints, d \in Diameters : DetectFamilyCoin(CopperFamily, p[1], p[2], d)

SpecClassify == InitClassify /\ [][NextClassify]_vars

(***************************************************************************)
(* Properties of the tracker.                                              *)
(***************************************************************************)
IsCall == last.op \in {"detect", "euro", "track"}

countItOf(op) == IF op = "track" THEN 0 ELSE 1

\* the table as the matching scan of the last call saw it
ScanCoins ==
    IF lib = "vc_coin"
    THEN trackCoinReplace(last.midCoins, last.x, last.y, last.type)
    ELSE IsCoinAlreadyDetectedReplace(last.midCoins, last.x, last.y, last.type)

WithinRadius(e, x, y, coinType) ==
    /\ ~IsEmptySlot(e)
    /\ DistSq(e, x, y) <= distThreshold(coinType) * distThreshold(coinType)

\* frames elapsed since the entry was stamped (runs are shorter than one lap)
Age(e, currentFrame) == (currentFrame - e[4]) % (FrameWrap + 1)

SumCounters(cnt) == cnt[0] + cnt[1] + cnt[2] + cnt[3] + cnt[4] + cnt[5] + cnt[6] + cnt[7]

CountedGoldWithin(tbl, x, y, r) == {i \in GoldWithin(tbl, x, y, r) : tbl[i][5] = 1}

\* C1: in a sequence of record_and_check(x, y, class, 1) calls with the same
\* arguments, each made fewer frames after the previous one than the class
\* memory window, at most one call returns 0 ("new").
C1_IdempotentCounting == streak.news <= 1

ScanFoundCounted ==
    LET m == FirstIndex(Matching(ScanCoins, last.x, last.y, last.type, last.frame))
    IN  m # 0 /\ ScanCoins[m][5] = 1

C3_ReclassifiedNetsToOne ==
    (last.op = "euro" /\ CountedGoldWithin(last.preCoins, last.x, last.y, ConflictRadius) # {})
    => SumCounters(counters) = SumCounters(last.preCounters)

\* C4: for each class c, the entries of class c with counted = 1 never
\* outnumber the increments held by counter c.
C4_CountedFlagBacked ==
    \A c \in 1..8 :
        Cardinality({i \in DOMAIN detectedCoins :
                        /\ ~IsEmptySlot(detectedCoins[i])
                        /\ detectedCoins[i][3] = c
                        /\ detectedCoins[i][5] = 1}) <= counters[c - 1]

\* entries of the scanned table within the match radius of the last call that
\* were stamped at a frame number greater than the current one
StampedAhead ==
    {i \in DOMAIN ScanCoins : /\ WithinRadius(ScanCoins[i], last.x, last.y, last.type)
                              /\ ScanCoins[i][4] > last.frame}

\* the last call matched entry m of the scanned table: m is refreshed, its
\* counted status is reported, and no slot was filled with a new detection
MatchedEntry(m) ==
    /\ detectedCoins[m][1] = last.x
    /\ detectedCoins[m][2] = last.y
    /\ detectedCoins[m][4] = last.frame
    /\ last.ret = IF countItOf(last.op) = 1 /\ ScanCoins[m][5] = 0 THEN 0 ELSE ScanCoins[m][5]
    /\ \A j \in DOMAIN ScanCoins : j # m => detectedCoins[j] = ScanCoins[j]

\* C5: an entry within the match radius whose stamp is greater than the
\* current frame (the counter wrapped after it was stamped) is inside the time
\* window: the call matches the first such candidate and reports its counted
\* status, and stores no new detection.
C5_WraparoundSafety ==
    (IsCall /\ StampedAhead # {})
    => \E m \in DOMAIN ScanCoins :
          /\ m <= FirstIndex(StampedAhead)
          /\ WithinRadius(ScanCoins[m], last.x, last.y, last.type)
          /\ MatchedEntry(m)

C5_Witness ==
    /\ IsCall
    /\ StampedAhead # {}
    /\ Age(ScanCoins[FirstIndex(StampedAhead)], last.frame) < frameMemory(last.type)
    /\ MatchedEntry(FirstIndex(StampedAhead))

\* C6: an entry that has not been matched for at least its memory window is
\* expired: a later record_and_check within its match radius does not match it.
C6_Expiry ==
    IsCall
    => \A i \in DOMAIN ScanCoins :
          (/\ WithinRadius(ScanCoins[i], last.x, last.y, last.type)
           /\ Age(ScanCoins[i], last.frame) >= frameMemory(last.type)
           /\ Age(ScanCoins[i], last.frame) >= frameMemory(ScanCoins[i][3]))
          => detectedCoins[i] = ScanCoins[i]

\* stored entries within the lookup radius of the last lookup
LookupNear ==
    {i \in DOMAIN detectedCoins :
        /\ ~IsEmptySlot(detectedCoins[i])
        /\ DistSq(detectedCoins[i], last.x, last.y) <= LookupRadius * LookupRadius}

\* C16: the lookup returns the class of the stored entry nearest to (x, y)
\* among those within 50 px, the lowest-index one on a tie, and 0 when no
\* stored entry is within 50 px.
C16_NearestClass ==
    last.op = "lookup"
    => IF LookupNear = {} THEN last.ret = 0
       ELSE \E i \in LookupNear :
               /\ \A j \in LookupNear :
                     DistSq(detectedCoins[i], last.x, last.y)
                        <= DistSq(detectedCoins[j], last.x, last.y)
               /\ \A j \in LookupNear :
                     DistSq(detectedCoins[j], last.x, last.y)
                        = DistSq(detectedCoins[i], last.x, last.y) => i <= j
               /\ last.ret = detectedCoins[i][3]

\* the nearest entry is not the first one within the radius and has another class
C16_Witness ==
    /\ last.op = "lookup"
    /\ \E i, j \in LookupNear :
          /\ i < j
          /\ DistSq(detectedCoins[j], last.x, last.y) < DistSq(detectedCoins[i], last.x, last.y)
          /\ detectedCoins[i][3] # detectedCoins[j][3]
          /\ last.ret = detectedCoins[j][3]

\* counters changed by the last call, the one of its own class left aside
OtherCountersChanged == {k \in 0..7 : k # last.type - 1 /\ counters[k] # last.preCounters[k]}

\* entries the correction of the last call deleted
EntriesDeleted == {i \in DOMAIN last.preCoins : last.midCoins[i] # last.preCoins[i]}

\* C17: no counter is ever negative; the correction of a euro detection
\* lowers a gold counter only if it was positive, by exactly 1, changes at
\* most one counter and deletes at most one entry.
C17_CountersNonNegative ==
    /\ \A k \in 0..7 : counters[k] >= 0
    /\ last.op = "euro"
       => /\ Cardinality(OtherCountersChanged) <= 1
          /\ \A k \in OtherCountersChanged :
                /\ k \in 3..5
                /\ last.preCounters[k] > 0
                /\ counters[k] = last.preCounters[k] - 1
          /\ Cardinality(EntriesDeleted) <= 1
          /\ \A i \in EntriesDeleted : last.midCoins[i] = ZeroEntry

\* a correction met a gold entry whose counter was already 0: the entry is
\* deleted and the counter stays at 0
C17_Witness ==
    /\ last.op = "euro"
    /\ \E i \in EntriesDeleted :
          /\ IsGold(last.preCoins[i][3])
          /\ last.preCounters[last.preCoins[i][3] - 1] = 0
          /\ counters[last.preCoins[i][3] - 1] = 0

\* C18: in the ProcessImage build a euro detection that is counted and that
\* supersedes a gold entry counted in an earlier frame lowers the count of
\* that gold class by 1 in the same call.
C18_CorrectionReachesCounts ==
    (lib = "vc_coin_utils" /\ last.op = "euro" /\ last.ret = 0)
    => \A i \in EntriesDeleted :
          (/\ last.preCoins[i][5] = 1
           /\ last.preCoins[i][4] # last.frame
           /\ last.preCounters[last.preCoins[i][3] - 1] > 0)
          => counters[last.preCoins[i][3] - 1] = last.preCounters[last.preCoins[i][3] - 1] - 1

\* C21: in a call for a euro class the conflict correction is complete when
\* the matching scan starts: no gold entry remains within 85 px of (x, y),
\* and the call does not match a gold entry.
C21_CorrectionBeforeMatching ==
    (IsCall /\ last.type >= 7)
    => /\ GoldWithin(ScanCoins, last.x, last.y, ConflictRadius) = {}
       /\ \A m \in Matching(ScanCoins, last.x, last.y, last.type, last.frame) :
             ~IsGold(ScanCoins[m][3])

\* the entry the matching scan of the last call stopped at, 0 if none
ScanMatch == FirstIndex(Matching(ScanCoins, last.x, last.y, last.type, last.frame))

\* C22: when the call finds a match, the matched entry takes the position
\* (x, y) and the current frame; the result is 0 and the flag becomes 1 iff
\* mark_counted is set and the flag was 0, otherwise the result is the flag
\* and the flag stays; every other entry is left as the scan found it.
C22_MatchUpdatesOneEntry ==
    (IsCall /\ ScanMatch # 0)
    => /\ detectedCoins[ScanMatch][1] = last.x
       /\ detectedCoins[ScanMatch][2] = last.y
       /\ detectedCoins[ScanMatch][4] = last.frame
       /\ IF countItOf(last.op) = 1 /\ ScanCoins[ScanMatch][5] = 0
          THEN last.ret = 0 /\ detectedCoins[ScanMatch][5] = 1
          ELSE /\ last.ret = ScanCoins[ScanMatch][5]
               /\ detectedCoins[ScanMatch][5] = ScanCoins[ScanMatch][5]
       /\ \A j \in DOMAIN ScanCoins : j # ScanMatch => detectedCoins[j] = ScanCoins[j]

\* a counting call matched an entry that was tracked but not counted, moved
\* it and stamped it anew, while another entry was in the table
C22_Witness ==
    /\ IsCall
    /\ ScanMatch # 0
    /\ countItOf(last.op) = 1
    /\ ScanCoins[ScanMatch][5] = 0
    /\ ScanCoins[ScanMatch][4] # last.frame
    /\ <<ScanCoins[ScanMatch][1], ScanCoins[ScanMatch][2]>> # <<last.x, last.y>>
    /\ last.ret = 0
    /\ \E j \in DOMAIN ScanCoins : j # ScanMatch /\ ~IsEmptySlot(ScanCoins[j])

Occupied(tbl) == {i \in DOMAIN tbl : ~IsEmptySlot(tbl[i])}

\* C23: when the call finds no match and no free slot remains after the
\* conflict correction, the table is left as it is and the call returns 0;
\* the table never holds more entries than its capacity.
C23_FullTableDrops ==
    /\ Len(detectedCoins) = MAX_TRACKED_COINS
    /\ Cardinality(Occupied(detectedCoins)) <= MAX_TRACKED_COINS
    /\ (IsCall /\ ScanMatch = 0 /\ EmptySlots(ScanCoins) = {})
       => detectedCoins = ScanCoins /\ last.ret = 0

\* a detection at a new place met a full table and was dropped
C23_Witness ==
    /\ IsCall
    /\ ScanMatch = 0
    /\ EmptySlots(ScanCoins) = {}
    /\ detectedCoins = last.preCoins
    /\ \A i \in DOMAIN detectedCoins :
          <<detectedCoins[i][1], detectedCoins[i][2]>> # <<last.x, last.y>>

\* entries of the scanned table that were last seen at least their class's
\* memory window before the last call
StaleSlots ==
    {i \in Occupied(ScanCoins) : Age(ScanCoins[i], last.frame) >= frameMemory(ScanCoins[i][3])}

\* C24: when every slot is occupied and at least one entry is older than its
\* memory window, a call that matches no entry stores the new detection in a
\* stale slot.
C24_StaleSlotsReused ==
    (IsCall /\ ScanMatch = 0 /\ EmptySlots(ScanCoins) = {} /\ StaleSlots # {})
    => \E i \in StaleSlots :
          detectedCoins[i] = <<last.x, last.y, last.type, last.frame, countItOf(last.op)>>

\* C28: trackCoin and IsCoinAlreadyDetected are equivalent: on the table and
\* frame counter a sequence of calls and frames has led to, whatever call
\* comes next, both return the same result and leave the same table.  While
\* this holds the two builds run through the same states.
C28_BuildsEquivalent ==
    \A p \in Points, t \in CoinTypes, c \in {0, 1} :
        trackCoin(detectedCoins, p[1], p[2], t, c, frameCountValue)
        = IsCoinAlreadyDetected(detectedCoins, p[1], p[2], t, c, frameCountValue)

\* the first entry, in table order, within the match radius of the last call
FirstNear ==
    FirstIndex({i \in DOMAIN ScanCoins :
                   WithinRadius(ScanCoins[i], last.x, last.y, last.type)})

\* the class a matched entry of class old has after a call of class coinType
ClassAfterMatch(old, coinType) == IF IsGold(old) /\ coinType >= 7 THEN coinType ELSE old

\* C29: matching ignores the class.  When the first entry within the match
\* radius of a call is of another class and within the time window, the
\* call matches it: the entry moves to the call's position and frame, the
\* call reports its counted flag: 1 if the entry was counted, whatever its
\* class.  An entry that stays in the table changes its class only from
\* gold (4-6) to the class of an incoming euro call.
C29_MatchingIgnoresClass ==
    IsCall
    => /\ \A m \in {FirstNear} \ {0} :
            (/\ ScanCoins[m][3] # last.type
             /\ Age(ScanCoins[m], last.frame) < frameMemory(last.type))
            => /\ detectedCoins[m][1] = last.x
               /\ detectedCoins[m][2] = last.y
               /\ detectedCoins[m][4] = last.frame
               /\ detectedCoins[m][3] = ClassAfterMatch(ScanCoins[m][3], last.type)
               /\ ScanCoins[m][5] = 1 => last.ret = 1
               /\ ScanCoins[m][5] = 0 => last.ret = 0
       /\ \A j \in DOMAIN ScanCoins :
            (~IsEmptySlot(ScanCoins[j]) /\ ~IsEmptySlot(detectedCoins[j])
             /\ detectedCoins[j][3] # ScanCoins[j][3])
            => IsGold(ScanCoins[j][3]) /\ last.type >= 7 /\ detectedCoins[j][3] = last.type

\* a counting call of one class met a counted entry of another class within
\* radius and window: it returned 1 and the entry kept its class
C29_Witness ==
    /\ IsCall
    /\ countItOf(last.op) = 1
    /\ FirstNear # 0
    /\ ScanCoins[FirstNear][3] # last.type
    /\ Age(ScanCoins[FirstNear], last.frame) < frameMemory(last.type)
    /\ ScanCoins[FirstNear][5] = 1
    /\ last.ret = 1
    /\ detectedCoins[FirstNear][3] = ScanCoins[FirstNear][3]
    /\ detectedCoins[FirstNear][3] # last.type

\* C30: the correction of a euro detection lowers a gold counter only on
\* account of an entry whose counted flag is 1: when it deletes a gold entry
\* that was stored without being counted, no gold counter goes down.
C30_CorrectionOnlyCounted ==
    last.op = "euro"
    => \A i \in EntriesDeleted :
          last.preCoins[i][5] = 0
          => \A k \in 3..5 : counters[k] >= last.preCounters[k]

\* C27: the frame counter always lies in 0..1000; an increment raises it by
\* exactly 1, except that the increment taken at 1000 returns it to 0.
C27_FrameCounterRange ==
    /\ frameCountValue \in 0..FrameWrap
    /\ last.op = "increment"
       => frameCountValue = IF last.frame = FrameWrap THEN 0 ELSE last.frame + 1

\* the increment taken at the wrap bound
C27_Witness == last.op = "increment" /\ last.frame = FrameWrap /\ frameCountValue = 0

\* the denominations of the family whose tolerance band holds the diameter
\* of the blob the last detector call was given
FamilyOf(name) == IF name = "gold" THEN GoldFamily ELSE CopperFamily

BandClasses ==
    {FamilyOf(shape.op).base + k - 1 : k \in
        {k \in 1..3 : InBand(shape.diameter, FamilyOf(shape.op).D[k], shape.tol)}}

\* C25: a region of the gold or copper family whose diameter lies within a
\* denomination's tolerance band is given the class of a denomination whose
\* band holds it, also when its centroid lies within the edge margin: the
\* edge fallback decides only when no band holds the diameter.
C25_EdgeFallbackOnlyWithoutMatch ==
    (shape.op \in {"gold", "copper"} /\ BandClasses # {}) => shape.cls \in BandClasses

(***************************************************************************)
(* Properties of the labeler.                                              *)
(***************************************************************************)
Returned == pc \in {"labelled", "done"}

Accepted == ValidInput(img, dst)

\* foreground pixels of the input once the border is taken as background
InputForeground ==
    {p \in DOMAIN img.data : ~IsBorder(p, img.width, img.height) /\ img.data[p] # 0}

Adjacent8(p, q) ==
    LET dx == (p % img.width) - (q % img.width)
        dy == (p \div img.width) - (q \div img.width)
    IN  p # q /\ dx >= -1 /\ dx <= 1 /\ dy >= -1 /\ dy <= 1

Grow(S) == S \cup {q \in InputForeground : \E r \in S : Adjacent8(r, q)}

RECURSIVE Closure(_)
Closure(S) == IF Grow(S) = S THEN S ELSE Closure(Grow(S))

\* the 8-connected foreground component of pixel p
Component(p) == Closure({p})

\* C7: on an accepted raster every foreground pixel ends with a non-zero
\* label, every background pixel ends with label 0, and two foreground
\* pixels carry the same label only if they lie in one 8-connected component.
C7_LabelingCompleteness ==
    (Returned /\ Accepted)
    => /\ \A p \in DOMAIN img.data :
            IF ~IsBorder(p, img.width, img.height) /\ img.data[p] # 0
            THEN dst.data[p] # 0
            ELSE dst.data[p] = 0
       /\ \A p, q \in InputForeground :
            (p < q /\ dst.data[p] = dst.data[q]) => q \in Component(p)

\* the pixel the scan is at, its neighbours A, B, C, D, those of them that
\* carry a label, and the labels the table gives for these
ScanPos == scan[2] * img.width + scan[1]

ScanNeighbours ==
    {ScanPos - img.width - 1, ScanPos - img.width, ScanPos - img.width + 1, ScanPos - 1}

LabelledNeighbours == {q \in ScanNeighbours : dst.data[q] # 0}

NeighbourLabels == {labeltable[dst.data[q]] : q \in LabelledNeighbours}

\* a scan step at a foreground pixel with a labelled neighbour: the pixel
\* receives the minimum of the neighbours' table labels and every table
\* entry that mapped to one of these labels maps to the minimum afterwards
MergeStepRule ==
    (pc = "scan" /\ dst.data[ScanPos] # 0 /\ LabelledNeighbours # {})
    => /\ dst'.data[ScanPos] = MinOf(NeighbourLabels)
       /\ \A a \in 1..(label - 1) :
            labeltable[a] \in NeighbourLabels => labeltable'[a] = MinOf(NeighbourLabels)

\* the table of the labels given out so far is flat
FlatTable ==
    pc \in {"scan", "finish"}
    => \A a \in 1..(label - 1) : labeltable[labeltable[a]] = labeltable[a]

\* pixels of the foreground fg none of whose neighbours A, B, C, D is in fg:
\* the pixels at which the scan gives out a new provisional label, in scan
\* order
Seeds(fg) ==
    {p \in fg :
        {p - img.width - 1, p - img.width, p - img.width + 1, p - 1} \cap fg = {}}

\* every foreground pixel ends with the smallest provisional label given out
\* inside its component: the label of the component's first pixel in scan
\* order, which is a seed
FinalLabels ==
    (pc = "labelled" /\ Accepted)
    => \A fg \in {InputForeground} : \A seeds \in {Seeds(fg)} :
          \A p \in fg : \A first \in {MinOf(Component(p))} :
             dst.data[p] = Cardinality({t \in seeds : t <= first})

\* C26: in the labeling scan a foreground pixel with a labelled neighbour
\* among A, B, C, D receives the minimum of those neighbours' table labels
\* and the table entries mapping to those labels are redirected to it; the
\* table stays flat; each component's final label is the smallest
\* provisional label assigned inside it.
C26_MinimumLabelWins == [][MergeStepRule]_vars /\ []FlatTable /\ []FinalLabels

\* pixels of the labelled raster that carry the label of region i
Members(i) ==
    {p \in Interior(dst.width, dst.height) :
        dst.data[p[2] * dst.bytesperline + p[1]] = blobs[i].label}

\* members of region i whose four 4-neighbours all carry its label
Enclosed(i) ==
    {p \in Members(i) :
        /\ dst.data[p[2] * dst.bytesperline + p[1] - 1] = blobs[i].label
        /\ dst.data[p[2] * dst.bytesperline + p[1] + 1] = blobs[i].label
        /\ dst.data[(p[2] - 1) * dst.bytesperline + p[1]] = blobs[i].label
        /\ dst.data[(p[2] + 1) * dst.bytesperline + p[1]] = blobs[i].label}

\* C8 as stated: 0 <= perimeter <= area for every region, and perimeter =
\* area only for regions of exactly one pixel.
C8_PerimeterBound ==
    pc = "done"
    => \A i \in DOMAIN blobs :
          /\ 0 <= blobs[i].perimeter
          /\ blobs[i].perimeter <= blobs[i].area
          /\ blobs[i].perimeter = blobs[i].area => blobs[i].area = 1

\* C8 as amended: 0 <= perimeter <= area for every region, and perimeter =
\* area exactly when no pixel of the region has all four 4-neighbours in it.
C8_PerimeterBoundEnclosed ==
    pc = "done"
    => \A i \in DOMAIN blobs :
          /\ 0 <= blobs[i].perimeter
          /\ blobs[i].perimeter <= blobs[i].area
          /\ blobs[i].perimeter = blobs[i].area <=> Enclosed(i) = {}

C8_Witness ==
    /\ pc = "done"
    /\ \E i \in DOMAIN blobs :
          blobs[i].area > 1 /\ blobs[i].perimeter = blobs[i].area /\ Enclosed(i) = {}

\* C9: every region record returned by blobLabel and filled in by blobInfo
\* has label > 0 and area > 0.
C9_RegionInvariant ==
    (pc = "done" /\ Accepted)
    => \A i \in DOMAIN blobs : blobs[i].label > 0 /\ blobs[i].area > 0

\* what the caller holds after a valid run that found no region
ZeroRegionOutcome ==
    LET list == Survivors(Deduplicate([a \in 0..(MinLabels - 1) |-> 0], 1), 1)
    IN  <<IF Len(list) = 0 THEN <<>> ELSE NewBlobs(list), Len(list)>>

\* C10: after an input-validation failure the caller holds a return value
\* and an nlabels that differ from those of a valid run without regions.
C10_FailureDistinct ==
    (Returned /\ ~Accepted) => <<blobs, nlabels>> # ZeroRegionOutcome

\* non-zero values present in the output label raster
RasterLabels == {dst.data[p] : p \in DOMAIN dst.data} \ {0}

\* labels of the returned list
ListLabels == {blobs[i].label : i \in DOMAIN blobs}

\* C14: on success nlabels is the number of distinct non-zero values of the
\* output raster and the returned list holds exactly those values.
C14_LabelCount ==
    (Returned /\ Accepted)
    => /\ nlabels = Cardinality(RasterLabels)
       /\ ListLabels = RasterLabels

RECURSIVE CoordTotal(_, _)
CoordTotal(S, k) ==
    IF S = {} THEN 0
    ELSE LET p == CHOOSE q \in S : TRUE IN p[k] + CoordTotal(S \ {p}, k)

\* the pixels of a solid w x h rectangle whose top-left pixel is (x0, y0)
Rectangle(x0, y0, w, h) == {<<x, y>> : x \in x0..(x0 + w - 1), y \in y0..(y0 + h - 1)}

\* foreground pixels of the input as <<x, y>> pairs
InputPoints == {<<p % img.width, p \div img.width>> : p \in InputForeground}

\* C15: for every reported label blobInfo gives area = number of interior
\* pixels carrying the label, the tight bounding box of those pixels and the
\* integer-truncated mean of their coordinates as centroid ((0, 0) for a label
\* without pixels); a solid w x h rectangle at (x0, y0) gives one region of
\* area w*h, box (x0, y0, w, h), centroid (x0 + (w-1) div 2, y0 + (h-1) div 2).
C15_RegionFeatures ==
    (pc = "done" /\ Accepted)
    => /\ \A i \in DOMAIN blobs : \A M \in {Members(i)} : \A b \in {blobs[i]} :
            /\ b.area = Cardinality(M)
            /\ M = {} => b.xc = 0 /\ b.yc = 0
            /\ M # {} =>
                 /\ \A p \in M : /\ b.x <= p[1] /\ p[1] <= b.x + b.width - 1
                                 /\ b.y <= p[2] /\ p[2] <= b.y + b.height - 1
                 /\ \E p \in M : p[1] = b.x
                 /\ \E p \in M : p[1] = b.x + b.width - 1
                 /\ \E p \in M : p[2] = b.y
                 /\ \E p \in M : p[2] = b.y + b.height - 1
                 /\ \A sx \in {CoordTotal(M, 1)} :
                       b.xc * b.area <= sx /\ sx < (b.xc + 1) * b.area
                 /\ \A sy \in {CoordTotal(M, 2)} :
                       b.yc * b.area <= sy /\ sy < (b.yc + 1) * b.area
       /\ \A pts \in {InputPoints} :
            \A x0 \in {p[1] : p \in pts}, y0 \in {p[2] : p \in pts} :
               \A w \in {n \in 1..Cardinality(pts) : <<x0 + n - 1, y0>> \in pts
                                                     /\ <<x0 + n, y0>> \notin pts},
                  h \in {n \in 1..Cardinality(pts) : <<x0, y0 + n - 1>> \in pts
                                                     /\ <<x0, y0 + n>> \notin pts} :
                  pts = Rectangle(x0, y0, w, h)
                  => /\ nlabels = 1
                     /\ blobs[1].area = w * h
                     /\ <<blobs[1].x, blobs[1].y, blobs[1].width, blobs[1].height>>
                           = <<x0, y0, w, h>>
                     /\ blobs[1].xc = x0 + (w - 1) \div 2
                     /\ blobs[1].yc = y0 + (h - 1) \div 2

\* a solid 2 x 3 rectangle at (2, 1) has been labelled and measured
C15_Witness ==
    /\ pc = "done"
    /\ Accepted
    /\ InputPoints = Rectangle(2, 1, 2, 3)
    /\ nlabels = 1
    /\ blobs[1].area = 6
    /\ blobs[1].xc = 2
    /\ blobs[1].yc = 2

(***************************************************************************)
(* Properties of the exclusion list and of the frame drivers.              *)
(***************************************************************************)
\* C11: when a frame's processing starts the exclusion list holds no entry
\* added in an earlier frame, and a blob is never skipped because of a
\* position excluded in an earlier frame.
C11_ExclusionOneFrame ==
    /\ lastBlob.op = "begin" => \A i \in DOMAIN excludeList : IsFreeSlot(excludeList[i])
    /\ (lastBlob.op = "blob" /\ lastBlob.excluded) => lastBlob.by = frameNo

\* C12: after add(x, y) on a list that is not full every point within 30 px
\* of (x, y) is excluded, (0, 0) included, and a point is excluded only if an
\* added and not yet removed position lies within 30 px of it.
C12_AddThenExcluded ==
    /\ (lastBlob.op = "add" /\ ~lastBlob.wasFull)
       => \A q \in ExclPoints :
             Dist2(q, <<lastBlob.x, lastBlob.y>>) <= ExcludeRadius * ExcludeRadius
             => isExcluded(excludeList, q[1], q[2])
    /\ \A q \in ExclPoints :
          isExcluded(excludeList, q[1], q[2])
          => \E l \in live : Dist2(l, q) <= ExcludeRadius * ExcludeRadius

Rank(family) == IF family = "euro" THEN 1 ELSE IF family = "gold" THEN 2 ELSE 3

\* C13: for each blob the classifiers are called in the order euro, gold,
\* copper, in both drivers.
C13_ClassifierOrder ==
    lastBlob.op = "blob"
    => \A i, j \in DOMAIN lastBlob.tried :
          i < j => Rank(lastBlob.tried[i]) < Rank(lastBlob.tried[j])

(***************************************************************************)
(* Properties of the shape features.                                       *)
(***************************************************************************)
\* distance from the centroid of the region to the nearest edge of the frame
\* size the detectors pass
EdgeDistance == Min4(shape.xc, frameWidth - shape.xc, shape.yc, frameHeight - shape.yc)

\* C19: for every centroid of a region of the frame the tolerance lies between
\* the base 0.08 and 1.5 x base, is the base when the nearest edge is at least
\* 50 px away and grows linearly to 1.5 x base at distance 0.
C19_ToleranceRange ==
    shape.op = "tolerance"
    => /\ BASE_TOLERANCE <= shape.tol
       /\ 2 * shape.tol <= 3 * BASE_TOLERANCE
       /\ EdgeDistance >= edgeMargin => shape.tol = BASE_TOLERANCE
       /\ (0 <= EdgeDistance /\ EdgeDistance < edgeMargin)
          => 100 * shape.tol = BASE_TOLERANCE * (150 - EdgeDistance)

\* C20: the circularity of a region with area >= 0 and perimeter >= 0 lies in
\* [0, 1] and is 0 when the perimeter is 0.
C20_CircularityRange ==
    shape.op = "circularity"
    => /\ shape.den # 0
       /\ \/ shape.num = 0
          \/ shape.num > 0 /\ shape.den > 0 /\ shape.num <= shape.den
       /\ shape.perimeter = 0 => shape.num = 0

====
